---- MODULE Spec2Model ----
(***************************************************************************)
(* Model of RCONClient (bot/src/core/rcon_client.py): the asynchronous     *)
(* RCON client, its lock, its connection flags, the authentication         *)
(* handshake, the reconnection loop and execute().                         *)
(*                                                                         *)
(* Every coroutine is cut at its await points.  One action is the code a   *)
(* caller runs from one await to the next; the outcome of the awaited      *)
(* operation (the transport's and the server's behaviour) is the action's  *)
(* input.                                                                  *)
(***************************************************************************)
EXTENDS Integers, Sequences, FiniteSets, TLC

(* ------------------------------ bounds -------------------------------- *)

\* Callers: the concurrent tasks using one client.  Commands, Payloads and
\* BadSizes: the command texts, the payloads a server sends and the declared
\* frame sizes outside [10, 4096] that are tried.  MaxRequestId: no new call
\* starts once self._request_id has reached it.  MaxTransports: at most that
\* many transports are open at once.  MaxAttempts: the largest configured
\* max_reconnect_attempts.

Callers == {1, 2}
Commands == {"list"}
Payloads == {"", "pong"}
BadSizes == {9, 5000}
MaxRequestId == 3
MaxTransports == 2
MaxAttempts == 2

(* ------------------------- program constants -------------------------- *)

None == 0
SERVERDATA_RESPONSE_VALUE == 0
SERVERDATA_EXECCOMMAND == 2
SERVERDATA_AUTH_RESPONSE == 2
SERVERDATA_AUTH == 3
IdModulus == 2147483647
MinPacketSize == 10
MaxPacketSize == 4096
Password == "secret123"

(* ------------------------------ state --------------------------------- *)

VARIABLES
    reader,                 \* self._reader: the transport read from, or None
    writer,                 \* self._writer: the transport written to, or None
    connected,              \* self._connected
    authenticated,          \* self._authenticated
    request_id,             \* self._request_id
    lock,                   \* self._lock is held
    auto_reconnect,         \* self.auto_reconnect
    max_reconnect_attempts, \* self.max_reconnect_attempts
    frame,                  \* per caller: its position and its local variables
    openT,                  \* the transports that are open (opened, not closed)
    timedOut,               \* a send or a receive on the held transport timed out
    sent,                   \* the packet this step handed to writer.write, if any
    handshake,              \* the last Auth packet sent and the answer taken for it
    last,                   \* the public call that has just ended, with its outcome
    codec                   \* a packet under encode / decode, outside any call

vars == <<reader, writer, connected, authenticated, request_id, lock,
          auto_reconnect, max_reconnect_attempts, frame, openT, timedOut,
          sent, handshake, last, codec>>

Packet(id, type, payload) ==
    [request_id |-> id, packet_type |-> type, payload |-> payload]

NoPacket == Packet(0, -1, "")

NoSent == [t |-> None, packet |-> NoPacket, ready |-> FALSE]

NoHandshake == [t |-> None, auth_id |-> 0, answer |-> "none"]

\* In codec a payload is a sequence of code points, elsewhere a string.
NoText == Packet(0, -1, <<>>)

NoCodec ==
    [step |-> "none", packet |-> NoText, data |-> <<>>, read |-> 0,
     given |-> -1, raised |-> "none", out |-> NoText]

\* A caller's frame: pc is the await it is suspended at.  retry, attempt,
\* auth_id, request_id and responses are the locals of the source; site and
\* pending say which call of _reconnect is running and which exception its
\* except clause holds.  The other fields are records of the call so far:
\* leading (the ResponseValue packet the handshake skipped), discards (packets
\* dropped for their ID: 0 none, then alternating 1 and 2), collected (the
\* packets whose payloads were appended), auth_failed (the previous attempt of
\* this reconnection loop raised an authentication error), and the numbers of
\* transport opens and of Auth / ExecCommand packets written.
InitFrame ==
    [pc |-> "idle", op |-> "none", command |-> "", retry |-> TRUE,
     site |-> "none", attempt |-> 0, pending |-> "none", auth_failed |-> FALSE,
     auth_id |-> 0, request_id |-> 0, responses |-> <<>>,
     leading |-> "none", discards |-> 0, collected |-> <<>>,
     opens |-> 0, authWrites |-> 0, execWrites |-> 0]

NoLast ==
    [c |-> 0, op |-> "none", command |-> "", outcome |-> "none", result |-> "",
     pending |-> "none", request_id |-> 0, collected |-> <<>>, discards |-> 0, leading |-> "none",
     opens |-> 0, authWrites |-> 0, execWrites |-> 0]

Init ==
    /\ reader = None
    /\ writer = None
    /\ connected = FALSE
    /\ authenticated = FALSE
    /\ request_id = 0
    /\ lock = FALSE
    /\ auto_reconnect \in BOOLEAN
    /\ max_reconnect_attempts \in
            IF auto_reconnect THEN 0..MaxAttempts ELSE {MaxAttempts}
    /\ frame = [c \in Callers |-> InitFrame]
    /\ openT = {}
    /\ timedOut = FALSE
    /\ sent = NoSent
    /\ handshake = NoHandshake
    /\ last = NoLast
    /\ codec = NoCodec

(* The state a caller's step works on, and its write-back. *)
World(c) ==
    [reader |-> reader, writer |-> writer, connected |-> connected,
     authenticated |-> authenticated, request_id |-> request_id,
     lock |-> lock, openT |-> openT, timedOut |-> timedOut,
     sent |-> NoSent, handshake |-> handshake, last |-> NoLast,
     c |-> c, f |-> frame[c]]

Commit(c, w) ==
    /\ reader' = w.reader
    /\ writer' = w.writer
    /\ connected' = w.connected
    /\ authenticated' = w.authenticated
    /\ request_id' = w.request_id
    /\ lock' = w.lock
    /\ openT' = w.openT
    /\ timedOut' = w.timedOut
    /\ sent' = w.sent
    /\ handshake' = w.handshake
    /\ last' = w.last
    /\ frame' = [frame EXCEPT ![c] = w.f]
    /\ UNCHANGED <<auto_reconnect, max_reconnect_attempts, codec>>

At(w, label) == [w EXCEPT !.f.pc = label]

Result(w, e) == [w |-> w, raised |-> e, packet |-> NoPacket]

(* ------------------------- pure helpers ------------------------------- *)

IsConnected(w) == w.connected /\ w.authenticated

\* Variant: the counter wraps one ID early.
NextRequestId_EarlyWrap(r) == (r + 1) % (IdModulus - 1)

NextRequestId(r) == (r + 1) % IdModulus

RECURSIVE Join(_)
Join(s) == IF s = <<>> THEN "" ELSE Head(s) \o Join(Tail(s))

\* Variant: the two flags are left as they are.
FlagsDown_Skipped(w) == w

FlagsDown(w) == [w EXCEPT !.connected = FALSE, !.authenticated = FALSE]

(* ----------------------- leaving a public call ------------------------ *)

\* Variant: a call that raises leaves without releasing the lock.
Exit_KeepLockOnError(w, outcome, result) ==
    [w EXCEPT !.lock = (outcome # "ok"), !.f = InitFrame,
              !.last = [c |-> w.c, op |-> w.f.op, command |-> w.f.command,
                        outcome |-> outcome, result |-> result,
                        pending |-> w.f.pending,
                        request_id |-> w.f.request_id,
                        collected |-> w.f.collected,
                        discards |-> w.f.discards, leading |-> w.f.leading,
                        opens |-> w.f.opens, authWrites |-> w.f.authWrites,
                        execWrites |-> w.f.execWrites]]

Exit(w, outcome, result) ==
    [w EXCEPT !.lock = FALSE, !.f = InitFrame,
              !.last = [c |-> w.c, op |-> w.f.op, command |-> w.f.command,
                        outcome |-> outcome, result |-> result,
                        pending |-> w.f.pending,
                        request_id |-> w.f.request_id,
                        collected |-> w.f.collected,
                        discards |-> w.f.discards, leading |-> w.f.leading,
                        opens |-> w.f.opens, authWrites |-> w.f.authWrites,
                        execWrites |-> w.f.execWrites]]

(* --------------------------- _send_packet ----------------------------- *)

SendPacket(w, packet) ==
    IF w.writer = None
    THEN Result(w, "RCONConnectionError")
    ELSE Result(
        [w EXCEPT !.sent = [t |-> w.writer, packet |-> packet,
                                ready |-> IsConnected(w)],
                  !.handshake =
                      IF packet.packet_type = SERVERDATA_AUTH
                      THEN [t |-> w.writer, auth_id |-> packet.request_id,
                            answer |-> "none"]
                      ELSE @,
                  !.f.authWrites =
                      IF packet.packet_type = SERVERDATA_AUTH THEN @ + 1 ELSE @,
                  !.f.execWrites =
                      IF packet.packet_type = SERVERDATA_EXECCOMMAND THEN @ + 1 ELSE @],
        "none")

Drain(w, outcome) ==
    CASE outcome = "ok" -> Result(w, "none")
      [] outcome = "timeout" ->
            Result([w EXCEPT !.timedOut = TRUE], "RCONTimeoutError")
      [] outcome = "oserror" -> Result(FlagsDown(w), "RCONConnectionError")

(* -------------------------- _receive_packet --------------------------- *)

ValidSize(n) == ~(n < MinPacketSize \/ n > MaxPacketSize)

ReceivePacket(w, in) ==
    IF w.reader = None
    THEN Result(w, "RCONConnectionError")
    ELSE CASE in.kind = "timeout" ->
                Result([w EXCEPT !.timedOut = TRUE], "RCONTimeoutError")
           [] in.kind = "eof" -> Result(FlagsDown(w), "RCONConnectionError")
           [] in.kind = "oserror" -> Result(FlagsDown(w), "RCONConnectionError")
           [] in.kind = "frame" ->
                IF ~ValidSize(in.size)
                THEN Result(w, "RCONError")
                ELSE [w |-> w, raised |-> "none", packet |-> in.packet]

(* ------------------- _disconnect_internal, _reconnect ------------------ *)

ReconnectFailed(w) ==
    IF w.f.site = "entry"
    THEN Exit(w, "RCONConnectionError", "")
    ELSE Exit(w, w.f.pending, "")

DisconnectDone(w) ==
    IF w.f.op = "disconnect" THEN Exit(w, "ok", "") ELSE At(w, "sleep")

DisconnectInternal(w) ==
    IF w.writer # None
    THEN [w EXCEPT !.openT = @ \ {w.writer}, !.f.pc = "wait_closed"]
    ELSE DisconnectDone(w)

\* Variant: the finally clause clears the transport and leaves the flags.
DisconnectFinally_KeepFlags(w) ==
    DisconnectDone([w EXCEPT !.writer = None, !.reader = None,
                             !.timedOut = FALSE, !.handshake = NoHandshake])

DisconnectFinally(w) ==
    DisconnectDone([w EXCEPT !.writer = None, !.reader = None,
                             !.connected = FALSE, !.authenticated = FALSE,
                             !.timedOut = FALSE, !.handshake = NoHandshake])

\* Variant: the cycle does not close the transport held before it waits.
ReconnectLoop_NoClose(w) ==
    IF w.f.attempt > max_reconnect_attempts
    THEN ReconnectFailed(w)
    ELSE At(w, "sleep")

\* Variant: the loop stops one attempt early.
ReconnectLoop_OffByOne(w) ==
    IF w.f.attempt >= max_reconnect_attempts
    THEN ReconnectFailed(w)
    ELSE DisconnectInternal(w)

ReconnectLoop(w) ==
    IF w.f.attempt > max_reconnect_attempts
    THEN ReconnectFailed(w)
    ELSE DisconnectInternal(w)

Reconnect(w, site, pending) ==
    ReconnectLoop([w EXCEPT !.f.site = site, !.f.pending = pending,
                            !.f.attempt = 1, !.f.auth_failed = FALSE])

(* -------------------------- _execute_internal ------------------------- *)

\* Variant: every error that leaves execute() lowers the flags.
ExecRaised_AllLowerFlags(w, e) ==
    IF e \in {"RCONConnectionError", "RCONTimeoutError"} /\ auto_reconnect /\ w.f.retry
    THEN Reconnect(FlagsDown(w), "except", e)
    ELSE Exit(FlagsDown(w), e, "")

ExecRaised(w, e) ==
    CASE e = "RCONConnectionError" ->
            IF auto_reconnect /\ w.f.retry
            THEN Reconnect(FlagsDown(w), "except", e)
            ELSE Exit(FlagsDown(w), e, "")
      [] e = "RCONTimeoutError" ->
            IF auto_reconnect /\ w.f.retry
            THEN Reconnect(FlagsDown(w), "except", e)
            ELSE Exit(w, e, "")
      [] OTHER -> Exit(w, e, "")

SendCommand(w) ==
    LET rid == NextRequestId(w.request_id)
        s == SendPacket([w EXCEPT !.request_id = rid, !.f.request_id = rid],
                        Packet(rid, SERVERDATA_EXECCOMMAND, w.f.command))
    IN  IF s.raised = "none"
        THEN At(s.w, "exec_drain")
        ELSE ExecRaised(s.w, s.raised)

\* Variant: the command is sent without looking at is_connected.
ExecuteInternal_NoReadyCheck(w) == SendCommand(w)

ExecuteInternal(w) ==
    IF ~IsConnected(w)
    THEN IF auto_reconnect /\ w.f.retry
         THEN Reconnect(w, "entry", "none")
         ELSE Exit(w, "RCONConnectionError", "")
    ELSE SendCommand(w)

\* Variant: after the first matching packet the loop reads once more.
ExecReturn_ReadOn(w) ==
    IF Len(w.f.responses) < 2
    THEN At(w, "exec_receive")
    ELSE Exit(w, "ok", Join(w.f.responses))

ExecReturn(w) == Exit(w, "ok", Join(w.f.responses))

\* Variant: the retried call may itself retry.
ReconnectSucceeded_KeepRetry(w) ==
    IF w.f.site = "entry" THEN SendCommand(w) ELSE ExecuteInternal(w)

ReconnectSucceeded(w) ==
    IF w.f.site = "entry"
    THEN SendCommand(w)
    ELSE ExecuteInternal([w EXCEPT !.f.retry = FALSE])

(* -------------------- _connect_internal, _authenticate ----------------- *)

AuthLocalsGone(w) ==
    [w EXCEPT !.f.auth_id = 0, !.f.leading = "none"]

ConnectDone(w) ==
    IF w.f.op = "connect"
    THEN Exit(w, "ok", "")
    ELSE ReconnectSucceeded(AuthLocalsGone(w))

ConnectRaised(w, e) ==
    IF w.f.op = "connect"
    THEN Exit(w, e, "")
    ELSE ReconnectLoop([AuthLocalsGone(w) EXCEPT
                            !.f.auth_failed = (e = "RCONAuthenticationError"),
                            !.f.attempt = @ + 1])

AuthRaised(w, e) == ConnectRaised(FlagsDown(w), e)

Answered(h, response) ==
    [t |-> h.t, auth_id |-> 0,
     answer |-> IF response.request_id = h.auth_id THEN "echo"
                ELSE IF response.request_id = -1 THEN "rejected"
                ELSE "other"]

\* Variant: the answer's requestId is not looked at.
AuthVerdict_NoCheck(w, response) ==
    ConnectDone([w EXCEPT !.handshake = Answered(@, response),
                          !.authenticated = TRUE])

\* Variant: the comparison with the Auth ID is inverted.
AuthVerdict_Inverted(w, response) ==
    LET w1 == [w EXCEPT !.handshake = Answered(@, response)]
    IN  IF response.request_id = w.f.auth_id
        THEN AuthRaised([w1 EXCEPT !.connected = FALSE], "RCONAuthenticationError")
        ELSE ConnectDone([w1 EXCEPT !.authenticated = TRUE])

AuthVerdict(w, response) ==
    LET w1 == [w EXCEPT !.handshake = Answered(@, response)]
    IN  IF response.request_id = -1
        THEN AuthRaised([w1 EXCEPT !.connected = FALSE], "RCONAuthenticationError")
        ELSE IF response.request_id # w.f.auth_id
        THEN AuthRaised([w1 EXCEPT !.connected = FALSE], "RCONAuthenticationError")
        ELSE ConnectDone([w1 EXCEPT !.authenticated = TRUE])

Authenticate(w) ==
    LET aid == NextRequestId(w.request_id)
        s == SendPacket([w EXCEPT !.request_id = aid, !.f.auth_id = aid],
                        Packet(aid, SERVERDATA_AUTH, Password))
    IN  IF s.raised = "none"
        THEN At(s.w, "auth_drain")
        ELSE AuthRaised(s.w, s.raised)

FreshTransport(open) == CHOOSE t \in 1..MaxTransports :
    /\ t \notin open
    /\ \A u \in 1..MaxTransports : u \notin open => t <= u

OpenConnection(w, outcome) ==
    LET w1 == [w EXCEPT !.f.opens = @ + 1, !.f.auth_failed = FALSE]
    IN  IF outcome = "ok"
        THEN LET t == FreshTransport(w.openT)
             IN  Authenticate([w1 EXCEPT !.reader = t, !.writer = t,
                                         !.connected = TRUE,
                                         !.openT = @ \cup {t},
                                         !.timedOut = FALSE])
        ELSE ConnectRaised(w1, "RCONConnectionError")

\* Variant: the early return for a connected client is missing.
ConnectInternal_AlwaysOpen(w) == At(w, "open_connection")

ConnectInternal(w) ==
    IF w.connected THEN ConnectDone(w) ELSE At(w, "open_connection")

(* ------------------------------ inputs -------------------------------- *)

Ops == {"connect", "disconnect", "execute"}

CommandsOf(o) == IF o = "execute" THEN Commands ELSE {""}

OpenOutcomes(open) ==
    {"timeout", "oserror"} \cup
    (IF Cardinality(open) < MaxTransports THEN {"ok"} ELSE {})

DrainOutcomes == {"ok", "timeout", "oserror"}

ServerIds(r) == {-1, r, r - 1}

Failure(kind) == [kind |-> kind, size |-> 0, packet |-> NoPacket]

RecvInputs(r) ==
    {Failure(k) : k \in {"timeout", "eof", "oserror"}}
    \cup {[kind |-> "frame", size |-> n, packet |-> NoPacket] : n \in BadSizes}
    \cup {[kind |-> "frame", size |-> MinPacketSize + Len(p),
           packet |-> Packet(i, t, p)] :
            i \in ServerIds(r),
            t \in {SERVERDATA_RESPONSE_VALUE, SERVERDATA_AUTH_RESPONSE},
            p \in Payloads}

(* ------------------------------ actions ------------------------------- *)

\* A caller invokes a public method.  New calls stop once request_id has
\* reached MaxRequestId.  Idle callers are interchangeable, so of several idle
\* callers only the lowest-numbered one starts a call.
Call(c, o, cmd) ==
    /\ frame[c].pc = "idle"
    /\ \A d \in Callers : d < c => frame[d].pc # "idle"
    /\ request_id < MaxRequestId
    /\ frame' = [frame EXCEPT ![c] =
                    [InitFrame EXCEPT !.pc = "wait_lock", !.op = o,
                                      !.command = cmd]]
    /\ last' = NoLast
    /\ sent' = NoSent
    /\ UNCHANGED <<reader, writer, connected, authenticated, request_id, lock,
                   auto_reconnect, max_reconnect_attempts, openT, timedOut,
                   handshake, codec>>

\* Variant: the lock admits a caller while another holds it.
LockFree_Always == TRUE

LockFree == ~lock

AcquireLock(c) ==
    /\ frame[c].pc = "wait_lock"
    /\ LockFree
    /\ LET w == [World(c) EXCEPT !.lock = TRUE]
       IN  Commit(c, CASE w.f.op = "connect" -> ConnectInternal(w)
                       [] w.f.op = "disconnect" -> DisconnectInternal(w)
                       [] w.f.op = "execute" -> ExecuteInternal(w))

AwaitOpenConnection(c) ==
    /\ frame[c].pc = "open_connection"
    /\ \E outcome \in OpenOutcomes(openT) :
          Commit(c, OpenConnection(World(c), outcome))

AwaitAuthDrain(c) ==
    /\ frame[c].pc = "auth_drain"
    /\ \E outcome \in DrainOutcomes :
          LET d == Drain(World(c), outcome)
          IN  Commit(c, IF d.raised = "none"
                        THEN At(d.w, "auth_receive")
                        ELSE AuthRaised(d.w, d.raised))

Leading(packet) == IF packet.payload = "" THEN "empty" ELSE "text"

AwaitAuthReceive(c) ==
    /\ frame[c].pc = "auth_receive"
    /\ \E in \in RecvInputs(request_id) :
          LET r == ReceivePacket(World(c), in)
          IN  Commit(c,
                IF r.raised # "none"
                THEN AuthRaised(r.w, r.raised)
                ELSE IF r.packet.packet_type = SERVERDATA_RESPONSE_VALUE
                THEN [r.w EXCEPT !.f.leading = Leading(r.packet),
                                 !.f.pc = "auth_receive_2"]
                ELSE AuthVerdict(r.w, r.packet))

AwaitAuthReceive2(c) ==
    /\ frame[c].pc = "auth_receive_2"
    /\ \E in \in RecvInputs(request_id) :
          LET r == ReceivePacket(World(c), in)
          IN  Commit(c, IF r.raised # "none"
                        THEN AuthRaised(r.w, r.raised)
                        ELSE AuthVerdict(r.w, r.packet))

AwaitWaitClosed(c) ==
    /\ frame[c].pc = "wait_closed"
    /\ \E raised \in BOOLEAN : Commit(c, DisconnectFinally(World(c)))

AwaitSleep(c) ==
    /\ frame[c].pc = "sleep"
    /\ Commit(c, ConnectInternal(World(c)))

AwaitExecDrain(c) ==
    /\ frame[c].pc = "exec_drain"
    /\ \E outcome \in DrainOutcomes :
          LET d == Drain(World(c), outcome)
          IN  Commit(c, IF d.raised = "none"
                        THEN [d.w EXCEPT !.f.responses = <<>>,
                                         !.f.collected = <<>>,
                                         !.f.discards = 0,
                                         !.f.pc = "exec_receive"]
                        ELSE ExecRaised(d.w, d.raised))

\* Variant: the sign bit of the fourth byte is not looked at.
Unpack_Unsigned(b) ==
    b[1] + 256 * b[2] + 65536 * b[3] + 16777216 * (b[4] % 128)

\* Variant: every packet read is taken as the answer.
Matches_Any(packet, id) == TRUE

Matches(packet, id) == packet.request_id = id

Collected(packet) ==
    [request_id |-> packet.request_id, payload |-> packet.payload]

AwaitExecReceive(c) ==
    /\ frame[c].pc = "exec_receive"
    /\ \E in \in RecvInputs(request_id), at_eof \in BOOLEAN :
          LET r == ReceivePacket(World(c), in)
              w1 == [r.w EXCEPT !.f.discards = IF @ < 2 THEN @ + 1 ELSE 1]
              w2 == [r.w EXCEPT !.f.collected = Append(@, Collected(r.packet)),
                                !.f.responses = Append(@, r.packet.payload)]
          IN  Commit(c,
                IF r.raised # "none"
                THEN ExecRaised(r.w, r.raised)
                ELSE IF ~Matches(r.packet, r.w.f.request_id)
                THEN w1
                ELSE IF w2.reader # None /\ at_eof
                THEN ExecReturn(w2)
                ELSE At(w2, "exec_linger"))

AwaitExecLinger(c) ==
    /\ frame[c].pc = "exec_linger"
    /\ Commit(c, ExecReturn(World(c)))

Next ==
    \E c \in Callers :
        \/ \E o \in Ops : \E cmd \in CommandsOf(o) : Call(c, o, cmd)
        \/ AcquireLock(c)
        \/ AwaitOpenConnection(c)
        \/ AwaitAuthDrain(c)
        \/ AwaitAuthReceive(c)
        \/ AwaitAuthReceive2(c)
        \/ AwaitWaitClosed(c)
        \/ AwaitSleep(c)
        \/ AwaitExecDrain(c)
        \/ AwaitExecReceive(c)
        \/ AwaitExecLinger(c)

Spec == Init /\ [][Next]_vars

\* The steps of caller c once it holds the lock: each is the return of an
\* awaited operation, which the event loop delivers (every awaited operation
\* completes or times out).  asyncio.Lock wakes its waiters in order, so a
\* caller that keeps finding the lock free gets it.
Step(c) ==
    \/ AwaitOpenConnection(c)
    \/ AwaitAuthDrain(c)
    \/ AwaitAuthReceive(c)
    \/ AwaitAuthReceive2(c)
    \/ AwaitWaitClosed(c)
    \/ AwaitSleep(c)
    \/ AwaitExecDrain(c)
    \/ AwaitExecReceive(c)
    \/ AwaitExecLinger(c)

FairSpec ==
    /\ Spec
    /\ \A c \in Callers : WF_vars(Step(c)) /\ SF_vars(AcquireLock(c))

(* --------------------- RCONPacket.encode / decode --------------------- *)

\* Bytes are numbers in 0..255 and a text is the sequence of its code points.
\* MaxTextLen: the longest payload text that is encoded.  In codec, read is
\* the number of bytes _receive_packet took from the stream and given is the
\* length of the buffer handed to decode (-1: decode was not called).

MaxTextLen == 2
CodePoints == {0, 65, 233, 8364, 128512}
PacketTypes == {SERVERDATA_RESPONSE_VALUE, SERVERDATA_EXECCOMMAND, SERVERDATA_AUTH}
Int32s == {-2147483647 - 1, -1, 0, 1, 256, 65536, 2147483646, 2147483647}
DeclaredSizes == {-1, 9, 10, 4096, 4097, 5000}
BufferLens == {0, 9, 10, 11, 4096, 4097}

Texts == UNION {[1..n -> CodePoints] : n \in 0..MaxTextLen}

\* A command text whose frame is one byte larger than _receive_packet accepts.
LongText == [i \in 1..(MaxPacketSize - 9) |-> 65]

Zeros(n) == [i \in 1..n |-> 0]

\* struct.pack('<i', n) and struct.unpack('<i', b): four bytes, little-endian,
\* two's complement.
Low31(n) == IF n >= 0 THEN n ELSE (n + 2147483647) + 1

Pack(n) ==
    <<Low31(n) % 256, (Low31(n) \div 256) % 256, (Low31(n) \div 65536) % 256,
      (Low31(n) \div 16777216) + (IF n < 0 THEN 128 ELSE 0)>>

Unpack(b) ==
    LET low == b[1] + 256 * b[2] + 65536 * b[3] + 16777216 * (b[4] % 128)
    IN  IF b[4] >= 128 THEN (low - 2147483647) - 1 ELSE low

\* str.encode('utf-8')
EncodeChar(cp) ==
    IF cp < 128 THEN <<cp>>
    ELSE IF cp < 2048 THEN <<192 + (cp \div 64), 128 + (cp % 64)>>
    ELSE IF cp < 65536
    THEN <<224 + (cp \div 4096), 128 + ((cp \div 64) % 64), 128 + (cp % 64)>>
    ELSE <<240 + (cp \div 262144), 128 + ((cp \div 4096) % 64),
           128 + ((cp \div 64) % 64), 128 + (cp % 64)>>

RECURSIVE Utf8Encode(_)
Utf8Encode(text) ==
    IF Len(text) = 0 THEN <<>>
    ELSE IF Len(text) = 1 THEN EncodeChar(text[1])
    ELSE LET m == Len(text) \div 2
         IN  Utf8Encode(SubSeq(text, 1, m))
                \o Utf8Encode(SubSeq(text, m + 1, Len(text)))

\* bytes.decode('utf-8', errors='replace'): a well-formed sequence gives its
\* code point, a malformed one gives U+FFFD for its longest well-formed start.
IsCont(b) == b >= 128 /\ b <= 191

Need(b) ==
    IF b < 128 THEN 1
    ELSE IF b >= 194 /\ b <= 223 THEN 2
    ELSE IF b >= 224 /\ b <= 239 THEN 3
    ELSE IF b >= 240 /\ b <= 244 THEN 4
    ELSE 0

SecondOk(b1, b2) ==
    CASE b1 = 224 -> b2 >= 160 /\ b2 <= 191
      [] b1 = 237 -> b2 >= 128 /\ b2 <= 159
      [] b1 = 240 -> b2 >= 144 /\ b2 <= 191
      [] b1 = 244 -> b2 >= 128 /\ b2 <= 143
      [] OTHER -> IsCont(b2)

Follow(b, n) ==
    IF n < 2 \/ Len(b) < 2 \/ ~SecondOk(b[1], b[2]) THEN 0
    ELSE IF n < 3 \/ Len(b) < 3 \/ ~IsCont(b[3]) THEN 1
    ELSE IF n < 4 \/ Len(b) < 4 \/ ~IsCont(b[4]) THEN 2
    ELSE 3

CodePoint(b, n) ==
    CASE n = 1 -> b[1]
      [] n = 2 -> (b[1] - 192) * 64 + (b[2] - 128)
      [] n = 3 -> (b[1] - 224) * 4096 + (b[2] - 128) * 64 + (b[3] - 128)
      [] n = 4 -> (b[1] - 240) * 262144 + (b[2] - 128) * 4096
                    + (b[3] - 128) * 64 + (b[4] - 128)

RECURSIVE DecodeRun(_)
DecodeRun(b) ==
    IF Len(b) = 0 THEN <<>>
    ELSE LET n == Need(b[1])
             k == Follow(b, n)
         IN  IF n > 0 /\ k = n - 1
             THEN <<CodePoint(b, n)>> \o DecodeRun(SubSeq(b, n + 1, Len(b)))
             ELSE <<65533>> \o DecodeRun(SubSeq(b, k + 2, Len(b)))

\* A long buffer is decoded in two halves, cut where a sequence starts.
RECURSIVE Utf8Decode(_)
Utf8Decode(b) ==
    IF Len(b) <= 8 THEN DecodeRun(b)
    ELSE LET mid == (Len(b) \div 2) + 1
             starts == {m \in (mid - 3)..mid : ~IsCont(b[m])}
             cut == IF starts = {} THEN mid
                    ELSE CHOOSE m \in starts : \A u \in starts : u <= m
         IN  Utf8Decode(SubSeq(b, 1, cut - 1))
                \o Utf8Decode(SubSeq(b, cut, Len(b)))

\* Variant: the size field counts its own four bytes too.
Encode_SizeCountsPrefix(packet) ==
    LET packet_body == Pack(packet.request_id) \o Pack(packet.packet_type)
                            \o Utf8Encode(packet.payload) \o <<0, 0>>
    IN  Pack(Len(packet_body) + 4) \o packet_body

Encode(packet) ==
    LET payload_bytes == Utf8Encode(packet.payload) \o <<0, 0>>
        packet_body == Pack(packet.request_id) \o Pack(packet.packet_type)
                            \o payload_bytes
        packet_size == Len(packet_body)
    IN  Pack(packet_size) \o packet_body

Decode(data) ==
    IF Len(data) < 10
    THEN [raised |-> "RCONError", packet |-> NoText]
    ELSE [raised |-> "none",
          packet |-> Packet(Unpack(SubSeq(data, 1, 4)),
                            Unpack(SubSeq(data, 5, 8)),
                            Utf8Decode(SubSeq(data, 9, Len(data) - 2)))]

\* _receive_packet on a stream holding the bytes of frame: the size prefix is
\* read and checked, then the body is read and decoded.
ReceiveFrame(frame_bytes) ==
    LET size == Unpack(SubSeq(frame_bytes, 1, 4))
        packet_data == SubSeq(frame_bytes, 5, 4 + size)
        d == Decode(packet_data)
    IN  IF ~ValidSize(size)
        THEN [raised |-> "RCONError", packet |-> NoText, read |-> 4,
              given |-> -1]
        ELSE IF Len(frame_bytes) < 4 + size
        THEN [raised |-> "RCONConnectionError", packet |-> NoText,
              read |-> Len(frame_bytes), given |-> -1]
        ELSE [raised |-> d.raised, packet |-> d.packet, read |-> 4 + size,
              given |-> size]

clientVars == <<reader, writer, connected, authenticated, request_id, lock,
                auto_reconnect, max_reconnect_attempts, frame, openT, timedOut,
                sent, handshake, last>>

CodecInit ==
    /\ reader = None
    /\ writer = None
    /\ connected = FALSE
    /\ authenticated = FALSE
    /\ request_id = 0
    /\ lock = FALSE
    /\ auto_reconnect = TRUE
    /\ max_reconnect_attempts = MaxAttempts
    /\ frame = [c \in Callers |-> InitFrame]
    /\ openT = {}
    /\ timedOut = FALSE
    /\ sent = NoSent
    /\ handshake = NoHandshake
    /\ last = NoLast
    /\ codec \in
          {[NoCodec EXCEPT !.step = "packet", !.packet = Packet(i, t, p)] :
                i \in Int32s, t \in PacketTypes, p \in Texts}
          \cup {[NoCodec EXCEPT !.step = "packet",
                                !.packet = Packet(1, SERVERDATA_EXECCOMMAND, LongText)]}
          \cup {[NoCodec EXCEPT !.step = "frame",
                                !.data = Pack(n) \o Zeros(IF ValidSize(n) THEN n ELSE 0)] :
                n \in DeclaredSizes}
          \cup {[NoCodec EXCEPT !.step = "buffer", !.data = Zeros(n)] :
                n \in BufferLens}

\* packet.encode(), as _send_packet hands it to writer.write
EncodePacket ==
    /\ codec.step = "packet"
    /\ codec' = [codec EXCEPT !.step = "frame", !.data = Encode(codec.packet)]
    /\ UNCHANGED clientVars

\* the peer's _receive_packet reads the frame
ReceiveEncoded ==
    /\ codec.step = "frame"
    /\ LET r == ReceiveFrame(codec.data)
       IN  codec' = [codec EXCEPT !.step = "received", !.raised = r.raised,
                                  !.out = r.packet, !.read = r.read,
                                  !.given = r.given]
    /\ UNCHANGED clientVars

\* RCONPacket.decode on the bytes after the size prefix
DecodeBody ==
    /\ codec.step = "frame"
    /\ LET d == Decode(SubSeq(codec.data, 5, Len(codec.data)))
       IN  codec' = [codec EXCEPT !.step = "decoded", !.raised = d.raised,
                                  !.out = d.packet,
                                  !.given = Len(codec.data) - 4]
    /\ UNCHANGED clientVars

\* RCONPacket.decode on a buffer of any length
DecodeBuffer ==
    /\ codec.step = "buffer"
    /\ LET d == Decode(codec.data)
       IN  codec' = [codec EXCEPT !.step = "decoded", !.raised = d.raised,
                                  !.out = d.packet, !.given = Len(codec.data)]
    /\ UNCHANGED clientVars

CodecNext == EncodePacket \/ ReceiveEncoded \/ DecodeBody \/ DecodeBuffer

CodecSpec == CodecInit /\ [][CodecNext]_vars

(* -------------------------- _next_request_id -------------------------- *)

\* The counter far from 0: a client that has issued many IDs.  It starts
\* either fresh or MaxIssued IDs before the wraparound, not connected, and
\* connects, authenticates, sends commands and disconnects until the counter
\* stands at MaxIssued.

MaxIssued == 16

IdStarts == {0, IdModulus - MaxIssued}

IdInit ==
    /\ reader = None
    /\ writer = None
    /\ connected = FALSE
    /\ authenticated = FALSE
    /\ request_id \in IdStarts
    /\ lock = FALSE
    /\ auto_reconnect = TRUE
    /\ max_reconnect_attempts = MaxAttempts
    /\ frame = [c \in Callers |-> InitFrame]
    /\ openT = {}
    /\ timedOut = FALSE
    /\ sent = NoSent
    /\ handshake = NoHandshake
    /\ last = NoLast
    /\ codec = NoCodec

\* asyncio.open_connection succeeds: _connect_internal, lines 171-178
IdOpen ==
    /\ writer = None
    /\ reader' = 1
    /\ writer' = 1
    /\ connected' = TRUE
    /\ openT' = {1}
    /\ sent' = NoSent
    /\ UNCHANGED <<authenticated, request_id, lock, auto_reconnect,
                   max_reconnect_attempts, frame, timedOut, handshake, last,
                   codec>>

\* _authenticate issues an ID for its Auth packet; the server echoes it
IdAuthenticate ==
    /\ connected
    /\ ~authenticated
    /\ request_id # MaxIssued
    /\ LET aid == NextRequestId(request_id)
           s == SendPacket([World(1) EXCEPT !.request_id = aid],
                           Packet(aid, SERVERDATA_AUTH, Password))
       IN  /\ request_id' = s.w.request_id
           /\ sent' = s.w.sent
           /\ handshake' = Answered(s.w.handshake, Packet(aid, SERVERDATA_AUTH_RESPONSE, ""))
    /\ authenticated' = TRUE
    /\ UNCHANGED <<reader, writer, connected, lock, auto_reconnect,
                   max_reconnect_attempts, frame, openT, timedOut, last, codec>>

\* _execute_internal issues an ID for its ExecCommand packet
IdExecute ==
    /\ connected
    /\ authenticated
    /\ request_id # MaxIssued
    /\ \E cmd \in Commands :
          LET rid == NextRequestId(request_id)
              s == SendPacket([World(1) EXCEPT !.request_id = rid],
                              Packet(rid, SERVERDATA_EXECCOMMAND, cmd))
          IN  /\ request_id' = s.w.request_id
              /\ sent' = s.w.sent
    /\ UNCHANGED <<reader, writer, connected, authenticated, lock,
                   auto_reconnect, max_reconnect_attempts, frame, openT,
                   timedOut, handshake, last, codec>>

\* _disconnect_internal, by disconnect() or by a reconnection cycle
IdDisconnect ==
    /\ writer # None
    /\ reader' = None
    /\ writer' = None
    /\ connected' = FALSE
    /\ authenticated' = FALSE
    /\ openT' = {}
    /\ sent' = NoSent
    /\ handshake' = NoHandshake
    /\ UNCHANGED <<request_id, lock, auto_reconnect, max_reconnect_attempts,
                   frame, timedOut, last, codec>>

IdNext == IdOpen \/ IdAuthenticate \/ IdExecute \/ IdDisconnect

IdSpec == IdInit /\ [][IdNext]_vars

(* ------------------------- state-level views --------------------------- *)

is_connected == connected /\ authenticated

InCriticalSection(c) == frame[c].pc \notin {"idle", "wait_lock"}

InFlight(c) == frame[c].pc \in {"exec_drain", "exec_receive", "exec_linger"}

ExecCommandSent == sent.packet.packet_type = SERVERDATA_EXECCOMMAND

Ended(o) == last.c # 0 /\ last.op = o

(* ------------------------------- claims -------------------------------- *)

(* C1: an ExecCommand packet is handed to the transport only while the     *)
(* client is Ready: both flags are up, the packet goes to the transport    *)
(* held, and that transport is the one the last handshake succeeded on.    *)
(* This covers the first send and the re-send after a reconnection.        *)
C1_ExecOnlyWhenReady ==
    /\ ExecCommandSent =>
          /\ sent.ready
          /\ sent.t = writer
          /\ writer # None
          /\ handshake.t = writer
          /\ handshake.answer = "echo"
    /\ \A c \in Callers : frame[c].pc = "exec_drain" => is_connected

C1_Witness ==
    \E c \in Callers :
        /\ frame[c].pc = "exec_drain"
        /\ ~frame[c].retry
        /\ ExecCommandSent
        /\ sent.ready

(* C2: connect(), disconnect() and execute() exclude one another: at most  *)
(* one caller is past the lock, the lock is held exactly then, and while   *)
(* a caller is past the lock no step of another caller writes a packet or  *)
(* changes the transport, the flags or the request-ID counter.             *)
C2_AtMostOneInside ==
    /\ Cardinality({c \in Callers : InCriticalSection(c)}) <= 1
    /\ lock <=> (\E c \in Callers : InCriticalSection(c))

C2_OthersKeepOut ==
    \A c \in Callers :
        (/\ InCriticalSection(c)
         /\ \/ <<reader, writer, connected, authenticated, request_id, openT>>'
                 # <<reader, writer, connected, authenticated, request_id, openT>>
            \/ sent' # NoSent)
        => \A d \in Callers \ {c} : frame'[d] = frame[d]

C2_MutualExclusion == [](C2_AtMostOneInside) /\ [][C2_OthersKeepOut]_vars

C2_Witness ==
    \E c, d \in Callers :
        /\ c # d
        /\ frame[c].pc = "exec_receive"
        /\ frame[d].pc = "wait_lock"
        /\ frame[d].op = "disconnect"

(* C3: the text execute() returns is the payload of a packet whose         *)
(* requestId is the ID of the ExecCommand packet the call sent last; a     *)
(* packet with another ID is discarded and is no part of the result.       *)
C3_ResultIsCorrelated ==
    /\ (Ended("execute") /\ last.outcome = "ok") =>
          /\ Len(last.collected) = 1
          /\ last.collected[1].request_id = last.request_id
          /\ last.result = last.collected[1].payload
    /\ \A c \in Callers :
          (frame[c].pc = "exec_drain" /\ ExecCommandSent) =>
              sent.packet.request_id = frame[c].request_id

C3_Witness ==
    /\ Ended("execute")
    /\ last.outcome = "ok"
    /\ last.discards > 0
    /\ last.result = "pong"

(* C4: one execute() call writes its ExecCommand packet at most twice;     *)
(* while the retry is in flight exactly two were written, both carrying    *)
(* the call's command, and a call that succeeds on the retry returns the   *)
(* payload answering the re-sent packet.                                   *)
C4_AtMostOneRetry ==
    /\ last.execWrites <= 2
    /\ \A c \in Callers :
          /\ frame[c].execWrites <= 2
          /\ InFlight(c) =>
                frame[c].execWrites = (IF frame[c].retry THEN 1 ELSE 2)
          /\ (frame[c].pc = "exec_drain" /\ ExecCommandSent) =>
                sent.packet.payload = frame[c].command
    /\ (Ended("execute") /\ last.outcome = "ok" /\ last.execWrites = 2) =>
          /\ last.collected[1].request_id = last.request_id
          /\ last.result = last.collected[1].payload

C4_Witness ==
    /\ Ended("execute")
    /\ last.outcome = "ok"
    /\ last.execWrites = 2
    /\ last.pending = "RCONConnectionError"

(* C5: once a connection attempt of the reconnection loop has ended in an  *)
(* authentication error, that loop makes no further connection attempt.    *)
C5_AuthFailureNotRetried ==
    \A c \in Callers :
        frame[c].auth_failed => frame[c].pc # "open_connection"

(* C6: with reconnection enabled and every transport open refused,         *)
(* execute() makes exactly max_reconnect_attempts connection attempts and  *)
(* then raises: a connection error when it started Disconnected or when    *)
(* the Ready connection failed with a connection error; it never makes     *)
(* more attempts than that.                                                *)
C6_BoundedRetry ==
    /\ \A c \in Callers :
          (frame[c].op = "execute" /\ frame[c].authWrites = 0) =>
              frame[c].opens <= max_reconnect_attempts
    /\ (Ended("execute") /\ auto_reconnect /\ last.authWrites = 0) =>
          /\ last.execWrites = 0 =>
                /\ last.outcome = "RCONConnectionError"
                /\ last.opens = max_reconnect_attempts
          /\ (last.execWrites > 0 /\ last.pending # "none") =>
                /\ last.outcome = last.pending
                /\ last.opens = max_reconnect_attempts
                /\ last.execWrites = 1

C6_Witness ==
    /\ Ended("execute")
    /\ auto_reconnect
    /\ max_reconnect_attempts = 2
    /\ last.authWrites = 0
    /\ last.execWrites = 1
    /\ last.opens = 2
    /\ last.outcome = "RCONConnectionError"

(* C7: after a timeout of a send or a receive the client is Disconnected,  *)
(* and no ExecCommand packet is written to the transport that timed out.   *)
C7_TimeoutDisconnects ==
    /\ timedOut => ~is_connected
    /\ ExecCommandSent => ~timedOut

(* C8: when the authoritative answer to the Auth packet of connect() has   *)
(* requestId -1, connect() raises an authentication error, the client is   *)
(* not Ready, and the call opened one transport and wrote one Auth packet. *)
C8_RejectedHandshake ==
    (Ended("connect") /\ last.authWrites > 0 /\ handshake.answer = "rejected") =>
        /\ last.outcome = "RCONAuthenticationError"
        /\ ~is_connected
        /\ last.opens = 1
        /\ last.authWrites = 1
        /\ last.execWrites = 0

C8_Witness ==
    /\ Ended("connect")
    /\ handshake.answer = "rejected"
    /\ last.outcome = "RCONAuthenticationError"
    /\ last.leading = "empty"

(* C9: the client is Ready only if an Auth packet was sent on the          *)
(* transport held and the authoritative answer echoed its requestId; an    *)
(* authoritative answer with another requestId leaves the client not       *)
(* Ready and raises an authentication error.                               *)
C9_ReadyOnlyByHandshake ==
    /\ is_connected =>
          /\ writer # None
          /\ handshake.t = writer
          /\ handshake.answer = "echo"
    /\ handshake.answer \in {"other", "rejected"} => ~is_connected
    /\ (Ended("connect") /\ last.authWrites > 0
            /\ handshake.answer \in {"other", "rejected"}) =>
          last.outcome = "RCONAuthenticationError"
    /\ \A c \in Callers :
          (frame[c].pc = "wait_closed" /\ frame[c].attempt > 1
                /\ handshake.answer \in {"other", "rejected"}) =>
              frame[c].auth_failed

C9_Witness ==
    /\ Ended("connect")
    /\ handshake.answer = "other"
    /\ last.outcome = "RCONAuthenticationError"

(* C10: when connect() opens a transport and the authoritative answer      *)
(* (the first packet, or the one after a leading ResponseValue packet)     *)
(* echoes the Auth requestId, connect() returns and the client is Ready.   *)
C10_HandshakeSuccess ==
    (Ended("connect") /\ last.authWrites > 0 /\ handshake.answer = "echo") =>
        /\ last.outcome = "ok"
        /\ is_connected
        /\ writer \in openT
        /\ reader = writer

C10_Witness ==
    /\ Ended("connect")
    /\ last.outcome = "ok"
    /\ last.leading = "empty"
    /\ is_connected

(* C11: execute() starts a reconnection, and with it a re-send of the      *)
(* command, only for a connection error: the exception held while the      *)
(* reconnection loop of the except clause runs, and the one recorded for   *)
(* the call that ended, is never a timeout error or a protocol error.      *)
C11_OnlyConnectionErrorsRetried ==
    /\ \A c \in Callers :
          frame[c].pending \in {"none", "RCONConnectionError"}
    /\ last.pending \in {"none", "RCONConnectionError"}

(* C12: when the last connection attempt of the reconnection inside        *)
(* execute() was answered with requestId -1 (bad credentials), execute()   *)
(* raises an authentication error.                                         *)
C12_AuthErrorSurfaces ==
    (Ended("execute") /\ last.authWrites > 0 /\ handshake.answer = "rejected") =>
        last.outcome = "RCONAuthenticationError"

(* C13: execute() entered while the client is not Ready.  With             *)
(* reconnection disabled it ends at once with a connection error, having   *)
(* opened no transport and written no packet.  With reconnection enabled   *)
(* it starts the reconnection cycle first, writes no ExecCommand packet    *)
(* while that cycle runs, writes it only once the cycle has reached Ready, *)
(* and a call that wrote none raised a connection error.                   *)
C13_EntryStep ==
    \A c \in Callers :
        (/\ frame[c].pc = "wait_lock"
         /\ frame[c].op = "execute"
         /\ ~is_connected
         /\ frame'[c] # frame[c])
        => /\ sent' = NoSent
           /\ request_id' = request_id
           /\ openT' \subseteq openT
           /\ IF auto_reconnect /\ max_reconnect_attempts > 0
              THEN /\ frame'[c].site = "entry"
                   /\ frame'[c].pc \in {"wait_closed", "sleep"}
                   /\ frame'[c].execWrites = 0
              ELSE /\ last'.c = c
                   /\ last'.outcome = "RCONConnectionError"
                   /\ last'.opens = 0
                   /\ last'.authWrites = 0
                   /\ last'.execWrites = 0
                   /\ openT' = openT
                   /\ writer' = writer

C13_EntryCycle ==
    /\ \A c \in Callers :
          /\ (frame[c].op = "execute" /\ ~auto_reconnect) =>
                (frame[c].opens = 0 /\ frame[c].authWrites = 0)
          /\ (/\ frame[c].site = "entry"
              /\ frame[c].pc \in {"wait_closed", "sleep", "open_connection",
                                  "auth_drain", "auth_receive", "auth_receive_2"})
                => frame[c].execWrites = 0
          /\ (frame[c].site = "entry" /\ frame[c].pc = "exec_drain"
                    /\ ExecCommandSent) =>
                (sent.ready /\ handshake.answer = "echo" /\ handshake.t = sent.t)
    /\ (Ended("execute") /\ last.execWrites = 0) =>
          last.outcome = "RCONConnectionError"
    /\ (Ended("execute") /\ ~auto_reconnect) =>
          (last.opens = 0 /\ last.authWrites = 0)

C13_NotReadyAtEntry == [](C13_EntryCycle) /\ [][C13_EntryStep]_vars

C13_Witness ==
    /\ Ended("execute")
    /\ auto_reconnect
    /\ last.outcome = "ok"
    /\ last.pending = "none"
    /\ last.opens = 2
    /\ last.authWrites = 1
    /\ last.execWrites = 1

(* C14: round trip.  For a requestId in the signed 32-bit range, a type in *)
(* {0, 2, 3} and a text payload, decoding the bytes that follow the size   *)
(* prefix of encode(requestId, type, payload) raises nothing and yields    *)
(* the same requestId, type and payload.                                   *)
C14_RoundTrip ==
    (codec.step = "decoded" /\ codec.packet # NoText) =>
        /\ codec.raised = "none"
        /\ codec.out = codec.packet

C14_Witness ==
    /\ codec.step = "decoded"
    /\ codec.packet.request_id = -1
    /\ codec.packet.packet_type = SERVERDATA_AUTH
    /\ codec.packet.payload = <<8364, 0>>
    /\ codec.out = codec.packet
    /\ Len(codec.data) = 18

(* C15: size invariant.  A frame whose declared body length is below 10 or *)
(* above 4096 is rejected by _receive_packet with a protocol error after   *)
(* the 4 bytes of the size field and no byte of the body have been read,   *)
(* and decode rejects every buffer shorter than 10 bytes and every buffer  *)
(* longer than 4096 bytes.                                                 *)
C15_SizeInvariant ==
    /\ (codec.step = "received"
            /\ ~ValidSize(Unpack(SubSeq(codec.data, 1, 4)))) =>
          /\ codec.raised = "RCONError"
          /\ codec.read = 4
          /\ codec.given = -1
    /\ (codec.given >= 0
            /\ (codec.given < MinPacketSize \/ codec.given > MaxPacketSize)) =>
          codec.raised = "RCONError"

(* C16: every request ID issued, for an Auth packet or an ExecCommand      *)
(* packet, is the previous one plus 1, or 0 after 2^31-2; it lies in       *)
(* [0, 2^31-2] and so is neither -1 nor negative; every packet written     *)
(* carries an ID issued for it from the one counter, and no step, a        *)
(* disconnect or reconnection included, sets the counter back.             *)
C16_IdsInRange ==
    /\ request_id >= 0
    /\ request_id <= 2147483646
    /\ sent # NoSent =>
          /\ sent.packet.request_id = request_id
          /\ sent.packet.request_id # -1
          /\ sent.packet.request_id >= 0

C16_IdStep ==
    /\ \/ request_id' = request_id
       \/ request_id < 2147483646 /\ request_id' = request_id + 1
       \/ request_id = 2147483646 /\ request_id' = 0
    /\ sent' # NoSent =>
          /\ request_id' # request_id
          /\ sent'.packet.request_id = request_id'
    /\ request_id' # request_id =>
          /\ sent' # NoSent
          /\ sent'.packet.packet_type \in {SERVERDATA_AUTH, SERVERDATA_EXECCOMMAND}

C16_RequestIds == [](C16_IdsInRange) /\ [][C16_IdStep]_vars

C16_Witness ==
    /\ request_id = 0
    /\ sent.packet.request_id = 0
    /\ sent.packet.packet_type = SERVERDATA_EXECCOMMAND
    /\ is_connected

(* C17: when the transport open of connect() times out or is refused,      *)
(* connect() raises a connection error and leaves the client Disconnected  *)
(* with no transport held: both flags are down and reader and writer are   *)
(* None.                                                                   *)
C17_OpenFailureResets ==
    (Ended("connect") /\ last.opens = 1 /\ last.authWrites = 0) =>
        /\ last.outcome = "RCONConnectionError"
        /\ ~connected
        /\ ~authenticated
        /\ writer = None
        /\ reader = None

(* C18: when disconnect() ends it has raised nothing and the client is     *)
(* Disconnected with no transport held: reader and writer are None and     *)
(* both flags are down, whether or not closing the transport raised.  A    *)
(* disconnect() entered while no transport is held (on a never-connected   *)
(* client, or after an earlier disconnect()) ends at once and changes      *)
(* nothing.                                                                *)
C18_DisconnectedAfter ==
    /\ Ended("disconnect") =>
          /\ last.outcome = "ok"
          /\ writer = None
          /\ reader = None
          /\ ~connected
          /\ ~authenticated
    /\ writer = None => (reader = None /\ ~connected /\ ~authenticated)

C18_NoOpStep ==
    \A c \in Callers :
        (/\ frame[c].pc = "wait_lock"
         /\ frame[c].op = "disconnect"
         /\ writer = None
         /\ frame'[c] # frame[c])
        => /\ last'.c = c
           /\ last'.outcome = "ok"
           /\ sent' = NoSent
           /\ UNCHANGED <<reader, writer, connected, authenticated,
                          request_id, openT, timedOut, handshake>>

C18_Disconnect == [](C18_DisconnectedAfter) /\ [][C18_NoOpStep]_vars

C18_Witness ==
    /\ Ended("disconnect")
    /\ last.outcome = "ok"
    /\ request_id > 0
    /\ writer = None
    /\ openT = {}
    /\ \E c \in Callers :
          frame[c].pc = "wait_lock" /\ frame[c].op = "disconnect"

(* C19: every execute() call ends: a caller that has called execute()      *)
(* eventually returns or raises, whatever the server sends.                *)
C19_ExecuteTerminates ==
    \A c \in Callers :
        (frame[c].op = "execute") ~> (frame[c].pc = "idle")

(* C20: the handshake reads a second packet, treating the first as a       *)
(* leading packet to discard, only when the first packet is an empty       *)
(* ResponseValue packet; a ResponseValue packet with a payload is itself   *)
(* the authoritative answer.                                               *)
C20_OnlyEmptyLeadingSkipped ==
    \A c \in Callers :
        frame[c].pc = "auth_receive_2" => frame[c].leading = "empty"

(* C21: a reconnection cycle of execute() closes the transport held, then  *)
(* waits, then opens a new transport, then authenticates on it with an     *)
(* Auth packet that carries a newly issued ID: while it waits and while it *)
(* opens, no transport is held and both flags are down; during the         *)
(* handshake the transport held is open and is the one the Auth packet     *)
(* went to.  Once a cycle has reached Ready the call is out of the loop:   *)
(* it starts no further cycle while the client is Ready.                   *)
C21_CycleOrder ==
    \A c \in Callers :
        frame[c].op = "execute" =>
            /\ frame[c].pc \in {"sleep", "open_connection"} =>
                  /\ writer = None
                  /\ reader = None
                  /\ ~connected
                  /\ ~authenticated
                  /\ frame[c].site # "none"
                  /\ frame[c].attempt >= 1
            /\ frame[c].pc \in {"auth_drain", "auth_receive", "auth_receive_2"} =>
                  /\ writer \in openT
                  /\ reader = writer
                  /\ connected
                  /\ ~authenticated
                  /\ handshake.t = writer
                  /\ frame[c].auth_id = request_id
                  /\ frame[c].authWrites >= 1
                  /\ frame[c].authWrites <= frame[c].opens
            /\ (frame[c].pc = "auth_drain" /\ sent # NoSent) =>
                  /\ sent.packet.packet_type = SERVERDATA_AUTH
                  /\ sent.packet.request_id = request_id
                  /\ sent.t = writer
            /\ is_connected =>
                  frame[c].pc \in {"wait_lock", "exec_drain", "exec_receive",
                                   "exec_linger"}

C21_Witness ==
    \E c \in Callers :
        /\ frame[c].pc = "exec_drain"
        /\ frame[c].site = "except"
        /\ frame[c].attempt = 2
        /\ frame[c].opens = 2
        /\ frame[c].authWrites = 1
        /\ ExecCommandSent
        /\ is_connected

(* C22: within one execute() call the number of connection attempts        *)
(* (transport opens) never exceeds max_reconnect_attempts.                 *)
C22_AttemptsWithinBound ==
    /\ \A c \in Callers :
          frame[c].op = "execute" => frame[c].opens <= max_reconnect_attempts
    /\ Ended("execute") => last.opens <= max_reconnect_attempts

(* C23: a successful execute() returns the concatenation of the payloads   *)
(* of the packets it collected, and it collects exactly one: nothing has   *)
(* been collected whenever it reads, so it never reads again after the     *)
(* first packet whose ID matches, and the result is that packet's payload. *)
C23_OnePacketCollected ==
    /\ \A c \in Callers :
          /\ Len(frame[c].responses) = Len(frame[c].collected)
          /\ frame[c].pc = "exec_receive" => frame[c].responses = <<>>
          /\ frame[c].pc = "exec_linger" =>
                /\ Len(frame[c].responses) = 1
                /\ frame[c].collected[1].request_id = frame[c].request_id
                /\ frame[c].responses[1] = frame[c].collected[1].payload
    /\ (Ended("execute") /\ last.outcome = "ok") =>
          /\ Len(last.collected) = 1
          /\ last.result = Join([i \in 1..Len(last.collected) |->
                                    last.collected[i].payload])
          /\ last.result \in Payloads

C23_Witness ==
    /\ Ended("execute")
    /\ last.outcome = "ok"
    /\ last.result = "pong"
    /\ last.discards = 0
    /\ last.execWrites = 1
    /\ last.opens = 0

(* C24: the frame encode produces starts with a size field equal to the    *)
(* number of bytes after it, which is 8 + the byte length of the payload   *)
(* + 2; then come requestId, type, the payload bytes and two zero bytes.   *)
(* The smallest frame, for the empty payload, has size 10.  encode has no  *)
(* upper limit: for a long payload it produces a frame of size above 4096, *)
(* which _receive_packet rejects; a frame encode produces with a size up   *)
(* to 4096 is received as the packet encoded.                              *)
C24_EncodedFrame ==
    /\ (codec.step = "frame" /\ codec.packet.packet_type # -1) =>
          LET n == Len(codec.data)
              size == Unpack(SubSeq(codec.data, 1, 4))
              payload_bytes == Utf8Encode(codec.packet.payload)
          IN  /\ size = n - 4
              /\ size = 8 + Len(payload_bytes) + 2
              /\ size >= 10
              /\ codec.packet.payload = <<>> => size = 10
              /\ Unpack(SubSeq(codec.data, 5, 8)) = codec.packet.request_id
              /\ Unpack(SubSeq(codec.data, 9, 12)) = codec.packet.packet_type
              /\ SubSeq(codec.data, 13, n - 2) = payload_bytes
              /\ codec.data[n - 1] = 0
              /\ codec.data[n] = 0
    /\ (codec.step = "received" /\ codec.packet.packet_type # -1) =>
          IF Len(codec.data) - 4 > MaxPacketSize
          THEN codec.raised = "RCONError" /\ codec.read = 4
          ELSE codec.raised = "none" /\ codec.out = codec.packet

C24_Witness ==
    /\ codec.step = "received"
    /\ codec.packet.packet_type = SERVERDATA_EXECCOMMAND
    /\ Len(codec.data) = 4101
    /\ Unpack(SubSeq(codec.data, 1, 4)) = 4097
    /\ codec.raised = "RCONError"

(* C25: when execute() has raised a connection error the client is not     *)
(* Ready: with reconnection disabled, after every reconnection attempt     *)
(* failed, and after the one retry failed.                                 *)
C25_NotReadyAfterConnectionError ==
    (Ended("execute") /\ last.outcome = "RCONConnectionError") =>
        /\ ~connected
        /\ ~authenticated

C25_Witness ==
    /\ Ended("execute")
    /\ last.outcome = "RCONConnectionError"
    /\ last.execWrites = 2
    /\ last.pending = "RCONConnectionError"
    /\ ~is_connected

(* C26: at most one transport is open at any time.                         *)
C26_OneTransportOpen == Cardinality(openT) <= 1

(* C27: an execute() that raises the error of an invalid declared frame    *)
(* size ends there: no reconnection is started for that error, the flags   *)
(* stay up and the transport stays open and held, and an execute() that    *)
(* was waiting for the lock then writes its command on that transport.  A  *)
(* connect() that raises that error in the handshake leaves both flags     *)
(* down.                                                                   *)
C27_BadSizeLeavesReady ==
    /\ (Ended("execute") /\ last.outcome = "RCONError") =>
          /\ is_connected
          /\ writer \in openT
          /\ reader = writer
          /\ handshake.t = writer
          /\ handshake.answer = "echo"
          /\ last.execWrites = (IF last.pending = "none" THEN 1 ELSE 2)
    /\ \A c \in Callers : frame[c].pending # "RCONError"
    /\ last.pending # "RCONError"
    /\ (Ended("connect") /\ last.outcome = "RCONError") =>
          (~connected /\ ~authenticated)

C27_NextWritesThere ==
    \A c \in Callers :
        (/\ Ended("execute")
         /\ last.outcome = "RCONError"
         /\ frame[c].pc = "wait_lock"
         /\ frame[c].op = "execute"
         /\ frame'[c] # frame[c])
        => /\ sent'.packet.packet_type = SERVERDATA_EXECCOMMAND
           /\ sent'.t = writer
           /\ writer' = writer
           /\ openT' = openT

C27_InvalidSize == [](C27_BadSizeLeavesReady) /\ [][C27_NextWritesThere]_vars

C27_Witness ==
    /\ Ended("execute")
    /\ last.outcome = "RCONError"
    /\ last.execWrites = 1
    /\ is_connected
    /\ \E c \in Callers :
          frame[c].pc = "wait_lock" /\ frame[c].op = "execute"

(* C28: when a connect(), disconnect() or execute() call has ended, by     *)
(* returning or by raising, the lock is free and the caller is outside;    *)
(* the lock is held only while some call is running inside it, so a        *)
(* caller waiting for the lock is never kept out by a call that has ended. *)
C28_LockReleased ==
    /\ last.c # 0 =>
          /\ ~lock
          /\ frame[last.c].pc = "idle"
          /\ last.outcome # "none"
    /\ lock => \E c \in Callers : InCriticalSection(c)
    /\ \A c \in Callers :
          (frame[c].pc = "wait_lock"
                /\ \A d \in Callers : ~InCriticalSection(d)) =>
              ENABLED AcquireLock(c)

C28_Witness ==
    /\ Ended("execute")
    /\ last.outcome = "RCONConnectionError"
    /\ max_reconnect_attempts = 2
    /\ last.opens = 2
    /\ ~lock
    /\ \E c \in Callers : frame[c].pc = "wait_lock"

(* C29: connect() entered while the client is Ready returns at once and    *)
(* changes nothing: no transport is opened, no packet is written, the      *)
(* request-ID counter keeps its value and the client stays Ready on the    *)
(* same transport.                                                         *)
C29_NoOpStep ==
    \A c \in Callers :
        (/\ frame[c].pc = "wait_lock"
         /\ frame[c].op = "connect"
         /\ is_connected
         /\ frame'[c] # frame[c])
        => /\ last'.c = c
           /\ last'.outcome = "ok"
           /\ last'.opens = 0
           /\ last'.authWrites = 0
           /\ sent' = NoSent
           /\ is_connected'
           /\ UNCHANGED <<reader, writer, connected, authenticated,
                          request_id, openT, handshake>>

C29_ConnectWhenReady == [][C29_NoOpStep]_vars

C29_Witness ==
    /\ Ended("connect")
    /\ last.outcome = "ok"
    /\ last.opens = 0
    /\ last.authWrites = 0
    /\ is_connected
    /\ Cardinality(openT) = 1

(* C30: whenever the lock is free, authenticated implies connected and     *)
(* connected implies that a reader and a writer are held; and a            *)
(* reconnection cycle reaches its connect with connected false.            *)
C30_FlagsConsistent ==
    /\ ~lock =>
          /\ authenticated => connected
          /\ connected => (reader # None /\ writer # None)
    /\ \A c \in Callers :
          (frame[c].site # "none" /\ frame[c].pc = "open_connection") =>
              ~connected

C30_Witness ==
    /\ ~lock
    /\ Ended("execute")
    /\ last.opens > 0
    /\ last.pending = "RCONTimeoutError"
    /\ authenticated
    /\ connected
    /\ writer # None

====
